---------------------------- MODULE Spec2Model ----------------------------
(***************************************************************************)
(* python-sportdata: the Garmin Connect downloader                         *)
(* (sportdata/download/garmin_connect.py) and the TCX loader               *)
(* (sportdata/io/tcx.py).                                                  *)
(*                                                                         *)
(* The downloader is modelled as a sequential program driven by a client   *)
(* that calls its public methods one at a time; every HTTP round-trip is   *)
(* one step whose response (status, cookies, body) is chosen by the        *)
(* server.  The TCX loader is a pure function of the document.             *)
(***************************************************************************)
EXTENDS Integers, Sequences, FiniteSets, TLC

(***************************************************************************)
(* Bounds of the model.                                                    *)
(***************************************************************************)
\* largest totalFound the server reports
MaxTotal == 2
\* largest number of activity records in one search page
MaxPage == 1
\* search requests one get_all_activities call may issue before the model
\* stops following it (the code itself has no such cap); a call whose pages
\* each bring a record below the total needs no more
MaxReq == MaxTotal

(***************************************************************************)
(* Program constants.                                                      *)
(***************************************************************************)
GC_ACTIVITIES_LIMIT == 100

Fetchers == {"f1", "f2"}
\* the module-level name `downloader` before line 260 binds it
Unbound == "unbound"

Statuses == {200, 204, 500}
ActivityIds == {"a1", "a2"}
ActivityNames == {"n1", "n2"}
\* one entry of data['results']['activities']: the server knows a1 under
\* two names (its record changes) and a2 under one
ActivityRecords ==
    {r \in [activityId : ActivityIds, activityName : ActivityNames] :
        r.activityId = "a2" => r.activityName = "n1"}
\* file contents are tuples of strings: a response body, a dumped record;
\* the server's export of an activity
ExportOf(activity_id) == <<"export", activity_id>>
Filetypes == {"gpx", "tcx", "fit"}
\* the filetype arguments the client passes ("zip" is not a known filetype)
FiletypeArgs == Filetypes \cup {"zip"}
\* the filetype arguments the client passes to download_all
DaFiletypeArgs == {"tcx", "zip", "json"}
\* limit arguments the client passes to search / get_activities
LimitArgs == {GC_ACTIVITIES_LIMIT - 1, GC_ACTIVITIES_LIMIT, GC_ACTIVITIES_LIMIT + 1}
\* directories: "out" exists, "nodir" does not
Dirs == {"out", "nodir"}
ExistingDirs == {"out"}

Absent == <<>>

RECURSIVE SeqsUpTo(_, _)
SeqsUpTo(S, n) ==
    IF n = 0 THEN {<<>>}
    ELSE LET shorter == SeqsUpTo(S, n - 1)
         IN  shorter \cup {Append(s, x) : s \in {t \in shorter : Len(t) = n - 1}, x \in S}

Pages == SeqsUpTo(ActivityRecords, MaxPage)

VARIABLES
    logged_in,        \* self.logged_in of each fetcher
    cookies,          \* 'CASTGC' in self.session.cookies, of each fetcher
    downloader,       \* the module global `downloader`
    fs,               \* the file system: file name -> content or Absent
    pc,               \* position of the running call ("idle": none)
    self,             \* the fetcher the running top-level call was made on
    reqs,             \* HTTP requests issued by the current / last top-level call
                      \* (of a download_all run: its downloads)
    result,           \* outcome of the last top-level call
    caller,           \* who runs get_all_activities: "client" or "download_all"
    gself,            \* the fetcher get_all_activities runs on
    start,            \* get_all_activities: start
    all_activities,   \* get_all_activities: all_activities
    total,            \* get_all_activities: total of the last page (-1: none yet)
    wellformed,       \* history: the pages of this get_all_activities call so far
                      \* were well-formed (see WellFormedPage)
    args,             \* download_all: [outdir, filetype, continue_on_fail]
    activities,       \* download_all: activities
    idx,              \* download_all: number of activities the loop has finished
    counts,           \* download_all: <<n_downloaded, n_skipped, n_error>>
    run,              \* history of the current download_all run
    last,             \* history: the last finished download_all run
    doc,              \* tcx: the document given to the loader
    loaded            \* tcx: what the last call of the loader did

gaaVars == <<caller, gself, start, all_activities, total, wellformed>>
daVars == <<args, activities, idx, counts, run, last>>
vars == <<logged_in, cookies, downloader, fs, pc, self, reqs, result,
          caller, gself, start, all_activities, total, wellformed,
          args, activities, idx, counts, run, last, doc, loaded>>
tcxVars == <<doc, loaded>>

(***************************************************************************)
(* Files.  download_all names its files activity_<id>.<ext> in outdir.     *)
(***************************************************************************)
FileName(dir, id, ext) == <<dir, id, ext>>
FileNames == {FileName(d, i, e) : d \in ExistingDirs, i \in ActivityIds,
                                  e \in FiletypeArgs \cup {"json"}}
\* the out_fname arguments the client passes to download
OutNames == {FileName("out", "a1", "tcx"), FileName("out", "a2", "fit")}

(***************************************************************************)
(* Requests and outcomes.                                                  *)
(***************************************************************************)
\* one round-trip: the request a fetcher's session sent, the status of the
\* response and what else the code reads from it (info)
Req(f, method, url, params, status, info) ==
    [fetcher |-> f, method |-> method, url |-> url, params |-> params,
     status |-> status, info |-> info]

NoParams == <<>>
None == "None"

\* how a call ended (or that it is running), with the arguments of the call
Return(op, a, v) == [op |-> op, args |-> a, kind |-> "return", value |-> v]
Raise(op, a, exc) == [op |-> op, args |-> a, kind |-> exc, value |-> <<>>]
Running(op, a) == [op |-> op, args |-> a, kind |-> "running", value |-> <<>>]
NoCall == Running("none", <<>>)



\* tcx: no call of the loader yet
NotLoaded == [op |-> "none", err |-> "", val |-> <<>>]

(***************************************************************************)
(* __init__ (lines 49-56) for every fetcher; the module global is unbound  *)
(* until line 260 runs; the output directory is empty.                     *)
(***************************************************************************)
NoRun == [clean |-> FALSE, outdir |-> "", filetype |-> "", ids |-> {},
          failed |-> {}]
NoArgs == [outdir |-> "", filetype |-> "", continue_on_fail |-> FALSE]
NoHistory == [repeat |-> FALSE, written |-> {}, errors |-> <<>>,
              existed |-> {}, tried |-> {}, retry |-> {}]

Init ==
    /\ logged_in = [f \in Fetchers |-> FALSE]
    /\ cookies = [f \in Fetchers |-> FALSE]
    /\ downloader = Unbound
    /\ fs = [n \in FileNames |-> Absent]
    /\ pc = "idle"
    /\ self = "f1"
    /\ reqs = <<>>
    /\ result = NoCall
    /\ caller = "client"
    /\ gself = "f1"
    /\ start = 0
    /\ all_activities = <<>>
    /\ total = -1
    /\ wellformed = TRUE
    /\ args = NoArgs
    /\ activities = <<>>
    /\ idx = 0
    /\ counts = <<0, 0, 0>>
    /\ run = NoHistory
    /\ last = NoRun
    /\ doc = <<>>
    /\ loaded = NotLoaded

(***************************************************************************)
(* __main__, line 260: downloader = GarminConnectDownloader()              *)
(* binds the module global to a newly constructed fetcher.                 *)
(***************************************************************************)
BindDownloader(f) ==
    /\ pc = "idle"
    /\ downloader = Unbound
    /\ ~logged_in[f] /\ ~cookies[f]
    /\ downloader' = f
    /\ UNCHANGED tcxVars
    /\ UNCHANGED <<logged_in, cookies, fs, pc, self, reqs, result>>
    /\ UNCHANGED gaaVars
    /\ UNCHANGED daVars

(***************************************************************************)
(* login (lines 58-94), one action per round-trip.                         *)
(***************************************************************************)
\* a login that skips the test of line 83
CookieMissingNeverChecked(jar) == FALSE

\* line 83: 'CASTGC' not in self.session.cookies
CookieMissing(jar) == ~jar

\* lines 64, 79, 90: r.status_code != 200
StatusFailed(status) == status # 200

\* a login that clears the flag when its last step fails
FlagClearedOnFailure(flags, f) == [flags EXCEPT ![f] = FALSE]

\* lines 90-92: the raise leaves self.logged_in as it is
FlagOnFailure(flags, f) == flags

LoginFinish(res) ==
    /\ pc' = "done"
    /\ result' = res

\* step 1 (lines 63-66): GET the login page
Login1(f) ==
    /\ pc = "idle"
    /\ self' = f
    /\ \E status \in Statuses :
          /\ reqs' = <<Req(f, "GET", "GC_LOGIN_URL", NoParams, status, None)>>
          /\ IF StatusFailed(status)
             THEN LoginFinish(Raise("login", <<f>>, "GCError"))
             ELSE pc' = "login2" /\ result' = Running("login", <<f>>)
    /\ UNCHANGED <<logged_in, cookies, downloader, fs>>
    /\ UNCHANGED tcxVars
    /\ UNCHANGED gaaVars
    /\ UNCHANGED daVars

\* step 2 (lines 78-84): POST the credentials; the session keeps every cookie
\* a response sets, and the test of line 83 reads the session's jar
Login2 ==
    /\ pc = "login2"
    /\ \E status \in Statuses, setsCASTGC \in BOOLEAN :
          /\ reqs' = Append(reqs, Req(self, "POST", "GC_LOGIN_URL", NoParams,
                                      status, setsCASTGC))
          /\ cookies' = [cookies EXCEPT ![self] = @ \/ setsCASTGC]
          /\ IF StatusFailed(status) \/ CookieMissing(cookies'[self])
             THEN LoginFinish(Raise("login", <<self>>, "GCError"))
             ELSE pc' = "login3" /\ result' = result
    /\ UNCHANGED <<logged_in, downloader, fs, self>>
    /\ UNCHANGED tcxVars
    /\ UNCHANGED gaaVars
    /\ UNCHANGED daVars

\* step 3 (lines 88-94): exchange the ticket, then self.logged_in = True
Login3 ==
    /\ pc = "login3"
    /\ \E status \in Statuses :
          /\ reqs' = Append(reqs, Req(self, "GET", "GC_POST_AUTH_URL",
                                      <<"ticket">>, status, None))
          /\ IF StatusFailed(status)
             THEN /\ LoginFinish(Raise("login", <<self>>, "GCError"))
                  /\ logged_in' = FlagOnFailure(logged_in, self)
             ELSE /\ LoginFinish(Return("login", <<self>>, None))
                  /\ logged_in' = [logged_in EXCEPT ![self] = TRUE]
    /\ UNCHANGED <<cookies, downloader, fs, self>>
    /\ UNCHANGED tcxVars
    /\ UNCHANGED gaaVars
    /\ UNCHANGED daVars

(***************************************************************************)
(* search (lines 96-111) and get_activities (lines 113-126): one           *)
(* round-trip each.                                                        *)
(***************************************************************************)
\* a search that forgets the assertion of line 103
SearchPreconditionNoLimit(f, limit) == logged_in[f]

\* lines 103-104: the two assertions of search
SearchPrecondition(f, limit) ==
    /\ limit <= GC_ACTIVITIES_LIMIT
    /\ logged_in[f]

\* the raw json search response
SearchData(page, totalFound) ==
    [results |-> [search |-> [totalFound |-> totalFound], activities |-> page]]

\* lines 105-110: the GET of search; the json of the response is read when
\* the status is 200
SearchReq(f, st, limit, status, data) ==
    Req(f, "GET", "GC_SEARCH_URL", <<st, limit>>, status,
        IF StatusFailed(status) THEN None ELSE data)

\* what search(start, limit) on f does when the server answers (status, data):
\* the requests it issues and how it ends
SearchOutcome(f, st, limit, status, data) ==
    IF ~SearchPrecondition(f, limit)
    THEN [reqs |-> <<>>, kind |-> "AssertionError", value |-> <<>>]
    ELSE IF StatusFailed(status)
    THEN [reqs |-> <<SearchReq(f, st, limit, status, data)>>, kind |-> "GCError",
          value |-> <<>>]
    ELSE [reqs |-> <<SearchReq(f, st, limit, status, data)>>, kind |-> "return",
          value |-> data]

\* lines 123-126: get_activities on top of search
GetActivitiesOutcome(f, st, limit, status, data) ==
    LET s == SearchOutcome(f, st, limit, status, data)
    IN  IF s.kind # "return" THEN s
        ELSE [s EXCEPT !.value = <<s.value.results.activities,
                                   s.value.results.search.totalFound>>]

\* the responses the server may give to a search: the body is read
\* (line 110) only when the request was issued and answered 200
NoData == SearchData(<<>>, 0)
SearchBodies(f, limit, status) ==
    IF SearchPrecondition(f, limit) /\ ~StatusFailed(status)
    THEN {SearchData(page, totalFound) : page \in Pages, totalFound \in 0..MaxTotal}
    ELSE {NoData}

Search(f, st, limit) ==
    /\ pc = "idle"
    /\ self' = f
    /\ \E status \in Statuses : \E data \in SearchBodies(f, limit, status) :
          LET o == SearchOutcome(f, st, limit, status, data)
          IN  /\ reqs' = o.reqs
              /\ result' = [op |-> "search", args |-> <<f, st, limit>>,
                            kind |-> o.kind, value |-> o.value]
    /\ pc' = "done"
    /\ UNCHANGED <<logged_in, cookies, downloader, fs>>
    /\ UNCHANGED tcxVars
    /\ UNCHANGED gaaVars
    /\ UNCHANGED daVars

GetActivities(f, st, limit) ==
    /\ pc = "idle"
    /\ self' = f
    /\ \E status \in Statuses : \E data \in SearchBodies(f, limit, status) :
          LET o == GetActivitiesOutcome(f, st, limit, status, data)
          IN  /\ reqs' = o.reqs
              /\ result' = [op |-> "get_activities", args |-> <<f, st, limit>>,
                            kind |-> o.kind, value |-> o.value]
    /\ pc' = "done"
    /\ UNCHANGED <<logged_in, cookies, downloader, fs>>
    /\ UNCHANGED tcxVars
    /\ UNCHANGED gaaVars
    /\ UNCHANGED daVars

(***************************************************************************)
(* get_all_activities (lines 128-146).  It runs for the client, or for     *)
(* download_all (line 204); each turn of its loop is one round-trip.       *)
(***************************************************************************)
\* a loop that goes on when the offset has just reached the total
LoopExitStrict(st, tot) == st > tot

\* a loop that is left after every page
LoopExitAlways(st, tot) == TRUE

\* line 143: if start >= total: break
LoopExit(st, tot) == st >= tot

\* an offset that advances by one whatever the page holds
NextStartByOne(st, page) == st + 1

\* line 142: start += len(activities)
NextStart(st, page) == st + Len(page)

\* history: a page is well-formed when its total is the one every earlier
\* page of this call reported, it is non-empty if requested below the total,
\* and it does not take the offset beyond the total
WellFormedPage(st, tot, page, prevTotal) ==
    /\ prevTotal \in {-1, tot}
    /\ st < tot => Len(page) > 0
    /\ st + Len(page) <= tot

GaaBegin(f, who) ==
    /\ caller' = who
    /\ gself' = f
    /\ start' = 0
    /\ all_activities' = <<>>
    /\ total' = -1
    /\ wellformed' = TRUE

\* get_all_activities is left: its locals are gone
GaaReset ==
    /\ start' = 0
    /\ all_activities' = <<>>
    /\ UNCHANGED <<caller, gself>>

GetAllActivitiesCall(f) ==
    /\ pc = "idle"
    /\ self' = f
    /\ reqs' = <<>>
    /\ result' = Running("get_all_activities", <<f>>)
    /\ pc' = "gaa"
    /\ GaaBegin(f, "client")
    /\ UNCHANGED <<logged_in, cookies, downloader, fs>>
    /\ UNCHANGED tcxVars
    /\ UNCHANGED daVars

ActivityIdsOf(list) == {list[i].activityId : i \in 1..Len(list)}

\* history: the activities of the list whose download failed in the run h
\* without a later download of the same activity returning in that run
Unfetched(list, h) ==
    LET failedAt == {h.errors[k][1] : k \in DOMAIN h.errors}
        fetchedAt == h.tried \ failedAt
    IN  {list[i].activityId : i \in
            {i \in failedAt : \A j \in fetchedAt :
                j < i \/ list[j].activityId # list[i].activityId}}

\* history: what a finished download_all run leaves for the next one to be
\* compared with: the run was clean when it returned without an error
\* counted; of another run, the activities it left unfetched are remembered
RunRecord(a, list, res, h) ==
    IF res.kind = "return" /\ res.value[3] = 0
    THEN [clean |-> TRUE, outdir |-> a.outdir, filetype |-> a.filetype,
          ids |-> ActivityIdsOf(list), failed |-> {}]
    ELSE IF Unfetched(list, h) # {}
    THEN [clean |-> FALSE, outdir |-> a.outdir, filetype |-> a.filetype,
          ids |-> {}, failed |-> Unfetched(list, h)]
    ELSE NoRun

\* history: this run repeats the last one: that one was clean, and this one
\* has the same outdir and filetype and got the same activity ids
Repeats(a, list) ==
    /\ last.clean
    /\ last.outdir = a.outdir
    /\ last.filetype = a.filetype
    /\ last.ids = ActivityIdsOf(list)

\* history: the activities the last run left unfetched, when this run has
\* the same outdir and filetype
Retry(a) ==
    IF last.outdir = a.outdir /\ last.filetype = a.filetype
    THEN last.failed ELSE {}

\* download_all ends, by return or by an exception that leaves it
DaFinish(res, a, list, h) ==
    /\ pc' = "done"
    /\ result' = res
    /\ last' = RunRecord(a, list, res, h)

\* an exception leaves get_all_activities: neither it nor download_all
\* (whose try block starts at line 225) catches it
GaaRaise(exc) ==
    /\ GaaReset
    /\ IF caller = "client"
       THEN /\ pc' = "done"
            /\ result' = Raise("get_all_activities", <<gself>>, exc)
            /\ UNCHANGED daVars
       ELSE /\ DaFinish(Raise("download_all", result.args, exc), args, <<>>, run)
            /\ UNCHANGED <<args, activities, idx, counts, run>>

\* line 146: return all_activities
GaaReturn(list) ==
    /\ GaaReset
    /\ IF caller = "client"
       THEN /\ pc' = "done"
            /\ result' = Return("get_all_activities", <<gself>>, list)
            /\ UNCHANGED daVars
       ELSE /\ pc' = "da_loop"
            /\ activities' = list
            /\ idx' = 0
            /\ run' = [run EXCEPT !.repeat = Repeats(args, list),
                                  !.retry = Retry(args)]
            /\ UNCHANGED <<result, args, counts, last>>

\* one turn of the loop, lines 138-144
GaaStep ==
    /\ pc = "gaa"
    /\ Len(reqs) < MaxReq
    /\ \E status \in Statuses :
       \E data \in SearchBodies(gself, GC_ACTIVITIES_LIMIT, status) :
          LET o == GetActivitiesOutcome(gself, start, GC_ACTIVITIES_LIMIT,
                                        status, data)
          IN  \* the log holds the requests of the client's own listings; of
              \* a listing made for download_all, gself keeps who listed
              /\ reqs' = IF caller = "client" THEN reqs \o o.reqs ELSE reqs
              /\ IF o.kind # "return"
                 THEN GaaRaise(o.kind) /\ wellformed' = FALSE /\ total' = -1
                 ELSE LET page == o.value[1]
                          tot == o.value[2]
                          done == LoopExit(NextStart(start, page), tot)
                          \* the history of the pages is kept for the
                          \* client's own calls of get_all_activities
                          keep == ~done \/ caller = "client"
                      IN  /\ wellformed' = (keep =>
                                 (wellformed /\
                                  WellFormedPage(start, tot, page, total)))
                          /\ total' = IF keep THEN tot ELSE -1
                          /\ IF done
                             THEN GaaReturn(all_activities \o page)
                             ELSE /\ all_activities' = all_activities \o page
                                  /\ start' = NextStart(start, page)
                                  /\ UNCHANGED <<pc, result, caller, gself>>
                                  /\ UNCHANGED daVars
    /\ UNCHANGED <<logged_in, cookies, downloader, fs, self>>
    /\ UNCHANGED tcxVars

(***************************************************************************)
(* download (lines 148-184): one round-trip.                               *)
(***************************************************************************)
\* lines 164-169: the URL of each filetype
DownloadUrl(filetype, activity_id) ==
    IF filetype = "gpx" THEN <<"GC_GPX_ACTIVITY", activity_id, "?full=true">>
    ELSE IF filetype = "tcx" THEN <<"GC_TCX_ACTIVITY", activity_id, "?full=true">>
    ELSE <<"GC_FIT_ACTIVITY", activity_id, "">>

DownloadReq(f, activity_id, filetype, status, body) ==
    Req(f, "GET", "download", DownloadUrl(filetype, activity_id), status, body)

\* a download that takes 204 for one more failed status
DownloadStatusNo204(status) ==
    IF status # 200 THEN "GCError" ELSE "return"

\* lines 172-179: what the response's status raises
DownloadStatus(status) ==
    IF status = 204 THEN "GCFiletypeError"
    ELSE IF status # 200 THEN "GCError"
    ELSE "return"

\* a download that opens out_fname before it looks at the status
OpensAlways(kind) == TRUE

\* line 181: open(out_fname, 'wb') is reached when neither status check
\* (lines 172-179) raised
Opens(kind) == kind = "return"

\* lines 181-184: the chunks of the body are written to out_fname
WriteFile(files, name, content) == [files EXCEPT ![name] = content]

\* download(activity_id, out_fname, filetype) on f when the server answers
\* (status, body): the requests it issues, how it ends, the files afterwards
DownloadOutcome(f, activity_id, out_fname, filetype, status, body, files) ==
    IF filetype \notin Filetypes
    THEN [reqs |-> <<>>, kind |-> "AssertionError", fs |-> files]
    ELSE LET kind == DownloadStatus(status)
         IN  [reqs |-> <<DownloadReq(f, activity_id, filetype, status, body)>>,
              kind |-> kind,
              fs |-> IF Opens(kind) THEN WriteFile(files, out_fname, body)
                     ELSE files]

\* the responses the server may give to a download: the body is read only
\* when the request was issued and answered 200
DownloadBodies(filetype, activity_id, status) ==
    IF filetype \in Filetypes /\ DownloadStatus(status) = "return"
    THEN {ExportOf(activity_id)} ELSE {<<>>}

Download(f, activity_id, out_fname, filetype) ==
    /\ pc = "idle"
    /\ self' = f
    /\ pc' = "done"
    /\ \E status \in Statuses : \E body \in DownloadBodies(filetype, activity_id, status) :
          LET o == DownloadOutcome(f, activity_id, out_fname, filetype,
                                   status, body, fs)
          IN  /\ reqs' = o.reqs
              /\ fs' = o.fs
              /\ result' = [op |-> "download",
                            args |-> <<f, activity_id, out_fname, filetype>>,
                            kind |-> o.kind, value |-> <<>>]
    /\ UNCHANGED <<logged_in, cookies, downloader>>
    /\ UNCHANGED tcxVars
    /\ UNCHANGED gaaVars
    /\ UNCHANGED daVars

(***************************************************************************)
(* download_all (lines 186-236).  The call runs get_all_activities on the  *)
(* module global `downloader` (line 204); each turn of its loop (lines     *)
(* 207-233) is one step, with at most one round-trip.                      *)
(***************************************************************************)
DownloadAllCall(f, dir, filetype, continue_on_fail) ==
    LET a == [outdir |-> dir, filetype |-> filetype,
              continue_on_fail |-> continue_on_fail]
        callArgs == <<f, dir, filetype, continue_on_fail>>
    IN  /\ pc = "idle"
        /\ self' = f
        /\ reqs' = <<>>
        /\ args' = a
        /\ activities' = <<>>
        /\ idx' = 0
        /\ counts' = <<0, 0, 0>>
        /\ run' = NoHistory
        /\ IF dir \notin ExistingDirs
           THEN \* line 200
                /\ DaFinish(Raise("download_all", callArgs, "AssertionError"), a, <<>>,
                            NoHistory)
                /\ UNCHANGED gaaVars
           ELSE IF downloader = Unbound
           THEN \* line 204: the global name is not defined
                /\ DaFinish(Raise("download_all", callArgs, "NameError"), a, <<>>,
                            NoHistory)
                /\ UNCHANGED gaaVars
           ELSE /\ pc' = "gaa"
                /\ result' = Running("download_all", callArgs)
                /\ GaaBegin(downloader, "download_all")
                /\ last' = last
        /\ UNCHANGED <<logged_in, cookies, downloader, fs>>
        /\ UNCHANGED tcxVars

\* lines 215-216: json.dump(act, f)
JsonDump(act) == <<"json", act.activityId, act.activityName>>

\* a loop that writes the sidecar of every activity it meets
SidecarNeededAlways(files, json_filename) == TRUE

\* line 213: if not os.path.exists(json_filename)
SidecarNeeded(files, json_filename) == files[json_filename] = Absent

\* a loop that never takes an activity for downloaded already
TargetExistsNever(files, filename) == FALSE

\* line 218: if os.path.exists(filename)
TargetExists(files, filename) == files[filename] # Absent

\* a handler that logs and goes on whatever continue_on_fail says
ReraiseNever(continue_on_fail) == FALSE

\* lines 230-233: the handler re-raises unless continue_on_fail
Reraise(continue_on_fail) == ~continue_on_fail

\* line 228: the exceptions the handler catches
Caught == {"GCError", "GCFiletypeError"}

DaStep ==
    /\ pc = "da_loop"
    /\ idx < Len(activities)
    /\ LET act == activities[idx + 1]
           act_id == act.activityId
           filename == FileName(args.outdir, act_id, args.filetype)
           json_filename == FileName(args.outdir, act_id, "json")
           saved == SidecarNeeded(fs, json_filename)
           fs1 == IF saved THEN WriteFile(fs, json_filename, JsonDump(act)) ELSE fs
           written1 == IF saved THEN run.written \cup {json_filename}
                       ELSE run.written
           \* history: the target was there when the loop came to act
           run1 == IF fs[filename] # Absent
                   THEN [run EXCEPT !.existed = @ \cup {idx + 1}]
                   ELSE run
           \* history: download is called for act (line 226)
           run2 == [run1 EXCEPT !.tried = @ \cup {idx + 1}]
       IN  IF TargetExists(fs1, filename)
           THEN \* lines 218-222
                /\ fs' = fs1
                /\ counts' = [counts EXCEPT ![2] = @ + 1]
                /\ idx' = idx + 1
                /\ run' = [run1 EXCEPT !.written = written1]
                /\ UNCHANGED <<pc, reqs, result, last>>
           ELSE \* lines 225-233
                \E status \in Statuses :
                \E body \in DownloadBodies(args.filetype, act_id, status) :
                  LET o == DownloadOutcome(self, act_id, filename,
                                           args.filetype, status, body, fs1)
                  IN  /\ reqs' = reqs \o o.reqs
                      /\ fs' = o.fs
                      /\ IF o.kind = "return"
                         THEN /\ counts' = [counts EXCEPT ![1] = @ + 1]
                              /\ idx' = idx + 1
                              /\ run' = [run2 EXCEPT !.written =
                                             written1 \cup {filename}]
                              /\ UNCHANGED <<pc, result, last>>
                         ELSE IF o.kind \in Caught
                         THEN /\ counts' = [counts EXCEPT ![3] = @ + 1]
                              /\ run' = [run2 EXCEPT !.written = written1,
                                             !.errors = Append(@, <<idx + 1, o.kind>>)]
                              /\ IF Reraise(args.continue_on_fail)
                                 THEN /\ DaFinish(Raise("download_all",
                                                        result.args, o.kind),
                                                  args, activities, run')
                                      /\ idx' = idx
                                 ELSE /\ idx' = idx + 1
                                      /\ UNCHANGED <<pc, result, last>>
                         ELSE \* the assertion of line 163 is not caught
                              /\ run' = [run2 EXCEPT !.written = written1]
                              /\ DaFinish(Raise("download_all", result.args,
                                                o.kind), args, activities, run')
                              /\ UNCHANGED <<idx, counts>>
    /\ UNCHANGED <<logged_in, cookies, downloader, self>>
    /\ UNCHANGED tcxVars
    /\ UNCHANGED <<args, activities>>
    /\ UNCHANGED gaaVars

\* lines 234-236: the loop is over
DaReturn ==
    /\ pc = "da_loop"
    /\ idx = Len(activities)
    /\ DaFinish(Return("download_all", result.args, counts), args, activities,
                run)
    /\ UNCHANGED <<logged_in, cookies, downloader, fs, self, reqs>>
    /\ UNCHANGED tcxVars
    /\ UNCHANGED <<args, activities, idx, counts, run>>
    /\ UNCHANGED gaaVars

(***************************************************************************)
(* The client drops the outcome of the call that ended (as lines 262-263   *)
(* do) and is ready for the next call.                                     *)
(***************************************************************************)
Discard ==
    /\ pc = "done"
    /\ pc' = "idle"
    /\ result' = NoCall
    /\ reqs' = <<>>
    /\ total' = -1
    /\ wellformed' = TRUE
    /\ self' = "f1"
    /\ gself' = "f1"
    /\ caller' = "client"
    /\ args' = NoArgs
    /\ activities' = <<>>
    /\ idx' = 0
    /\ counts' = <<0, 0, 0>>
    /\ run' = NoHistory
    /\ UNCHANGED <<logged_in, cookies, downloader, fs, last>>
    /\ UNCHANGED tcxVars
    /\ UNCHANGED <<start, all_activities>>

(***************************************************************************)
(* The client of one or more fetchers: any method, any arguments, one call *)
(* at a time.                                                              *)
(***************************************************************************)
Next ==
    \/ \E f \in Fetchers : Login1(f)
    \/ Login2
    \/ Login3
    \/ \E f \in Fetchers, st \in 0..MaxTotal, limit \in LimitArgs : Search(f, st, limit)
    \/ \E f \in Fetchers, st \in 0..MaxTotal, limit \in LimitArgs :
          GetActivities(f, st, limit)
    \/ \E f \in Fetchers : GetAllActivitiesCall(f)
    \/ GaaStep
    \/ \E f \in Fetchers, id \in ActivityIds, name \in OutNames, ft \in FiletypeArgs :
          Download(f, id, name, ft)
    \/ Discard

Spec == Init /\ [][Next]_vars
(***************************************************************************)
(* The script (lines 260-263) and its re-runs: one fetcher, bound to the   *)
(* module global, logs in and runs download_all.                           *)
(***************************************************************************)
ScriptFetchers == {"f1"}

NextAll ==
    \/ \E f \in ScriptFetchers : BindDownloader(f)
    \/ \E f \in ScriptFetchers : Login1(f)
    \/ Login2
    \/ Login3
    \/ \E f \in ScriptFetchers, dir \in Dirs, ft \in DaFiletypeArgs, cof \in BOOLEAN :
          DownloadAllCall(f, dir, ft, cof)
    \/ GaaStep
    \/ DaStep
    \/ DaReturn
    \/ Discard

SpecAll == Init /\ [][NextAll]_vars

\* the sequential program takes its next step: a get_all_activities loop
\* that can issue its next request does
FairSpec == Spec /\ WF_vars(GaaStep)

(***************************************************************************)
(* Properties.                                                             *)
(***************************************************************************)
IsSearch(r) == r.url = "GC_SEARCH_URL"
IsDownload(r) == r.url = "download"
Ended(op) == pc = "done" /\ result.op = op

\* C1 (state part): while every page of a get_all_activities call has been
\* well-formed (same total on every page, non-empty below the total, never
\* beyond the total), each request so far has brought at least one record and
\* the offset is still below the total; and when the call returns, the number
\* of records returned is the reported total.
C1_Progress ==
    /\ (pc = "gaa" /\ wellformed /\ Len(reqs) > 0) =>
           (Len(reqs) <= start /\ start < total /\ ENABLED GaaStep)
    /\ (Ended("get_all_activities") /\ result.kind = "return" /\ wellformed) =>
           (Len(result.value) = total /\ Len(reqs) <= IF total = 0 THEN 1 ELSE total)

\* C1: get_all_activities terminates and returns as many records as the
\* server-reported total, for every server behaviour whose pages are
\* well-formed: a running call whose pages stay well-formed comes to an end,
\* and C1_Progress holds throughout.
C1_TerminatesWithTotal ==
    /\ []C1_Progress
    /\ (pc = "gaa") ~> (pc # "gaa" \/ ~wellformed)

C1_Witness ==
    /\ Ended("get_all_activities") /\ result.kind = "return" /\ wellformed
    /\ total = MaxTotal /\ Len(reqs) = MaxTotal /\ Len(result.value) = MaxTotal

\* C2 (the claim as stated): whenever a login's credential POST was answered
\* 200 by a response that does not set CASTGC, the login has ended with
\* GCError and the POST is the last request it issued.
C2_NoCookieInResponseFails ==
    \A i \in DOMAIN reqs :
        (result.op = "login" /\ reqs[i].method = "POST" /\ reqs[i].status = 200
            /\ reqs[i].info = FALSE) =>
        (pc = "done" /\ result.kind = "GCError" /\ i = Len(reqs))

\* C3: download raises GCFiletypeError exactly when its GET is answered 204,
\* GCError for every other status that is not 200, and for 200 it returns and
\* the destination holds the body.
C3_DownloadStatus ==
    Ended("download") =>
        /\ (result.kind = "GCFiletypeError") <=>
               (Len(reqs) = 1 /\ reqs[1].status = 204)
        /\ (Len(reqs) = 1 /\ reqs[1].status \notin {200, 204}) =>
               result.kind = "GCError"
        /\ (Len(reqs) = 1 /\ reqs[1].status = 200) =>
               (result.kind = "return" /\ fs[result.args[3]] = reqs[1].info)

C3_Witness ==
    /\ Ended("download") /\ result.kind = "GCFiletypeError"
    /\ Len(reqs) = 1 /\ reqs[1].status = 204

\* C5: a search request is issued only by a logged-in fetcher and with
\* limit <= 100; a search or get_activities call that is not logged in or
\* passes limit > 100 ends with AssertionError (not GCError) and no request,
\* and so does get_all_activities on a fetcher that is not logged in.
C5_SearchPrecondition ==
    /\ \A i \in DOMAIN reqs :
           IsSearch(reqs[i]) =>
               (logged_in[reqs[i].fetcher] /\ reqs[i].params[2] <= GC_ACTIVITIES_LIMIT)
    /\ (Ended("search") \/ Ended("get_activities")) =>
           IF logged_in[result.args[1]] /\ result.args[3] <= GC_ACTIVITIES_LIMIT
           THEN Len(reqs) = 1 /\ IsSearch(reqs[1]) /\ result.kind \in {"return", "GCError"}
           ELSE reqs = <<>> /\ result.kind = "AssertionError"
    /\ (Ended("get_all_activities") /\ ~logged_in[result.args[1]]) =>
           (reqs = <<>> /\ result.kind = "AssertionError")

C5_Witness ==
    /\ Ended("search") /\ logged_in[result.args[1]]
    /\ result.args[3] > GC_ACTIVITIES_LIMIT
    /\ result.kind = "AssertionError" /\ reqs = <<>>

LoginUrls == <<"GC_LOGIN_URL", "GC_LOGIN_URL", "GC_POST_AUTH_URL">>
LoginMethods == <<"GET", "POST", "GET">>

\* C6 (state part): the requests of a login are a prefix of login-page GET,
\* credential POST, ticket-exchange GET, all on the fetcher's own session;
\* every request but the last was answered 200, and the ticket exchange is
\* issued only with CASTGC in the session's jar; the login is still running
\* only if every request so far succeeded, it ends with GCError exactly when
\* its last request failed (non-200, or no CASTGC after the POST), and it
\* returns exactly when all three succeeded.
C6_Order ==
    result.op = "login" =>
        LET n == Len(reqs)
            lastFailed == \/ reqs[n].status # 200
                          \/ (n = 2 /\ ~cookies[self])
        IN  /\ n \in 1..3
            /\ \A i \in 1..n : /\ reqs[i].url = LoginUrls[i]
                               /\ reqs[i].method = LoginMethods[i]
                               /\ reqs[i].fetcher = result.args[1]
            /\ \A i \in 1..(n - 1) : reqs[i].status = 200
            /\ n = 3 => cookies[self]
            /\ pc \in {"login2", "login3", "done"}
            /\ pc = "login2" => (n = 1 /\ ~lastFailed)
            /\ pc = "login3" => (n = 2 /\ ~lastFailed)
            /\ pc = "done" => /\ result.kind \in {"GCError", "return"}
                              /\ (result.kind = "GCError") <=> lastFailed
                              /\ (result.kind = "return") <=> (n = 3 /\ ~lastFailed)

\* C6 (flag part): a step turns a fetcher's logged-in flag from false to true
\* exactly when it is the third step of that fetcher's login succeeding.
C6_FlagStep ==
    \A f \in Fetchers :
        ~logged_in[f] =>
            (logged_in'[f] <=>
                (pc = "login3" /\ self = f /\ pc' = "done"
                    /\ result'.kind = "return" /\ Len(reqs') = 3
                    /\ \A i \in 1..3 : reqs'[i].status = 200))

\* C6: login's three round-trips come in order, each only after the earlier
\* ones succeeded, a failing step raises GCError and ends the login, and on a
\* fetcher not yet logged in the flag becomes true exactly when all three
\* steps succeeded.
C6_LoginSequence == []C6_Order /\ [][C6_FlagStep]_vars

C6_Witness ==
    /\ Ended("login") /\ result.kind = "return" /\ Len(reqs) = 3
    /\ logged_in[result.args[1]]

\* C7 (the claim as stated): a download request is issued only by a fetcher
\* that is logged in, and a download on a fetcher that is not ends with
\* AssertionError and no request.
C7_DownloadChecksLogin ==
    /\ \A i \in DOMAIN reqs : IsDownload(reqs[i]) => logged_in[reqs[i].fetcher]
    /\ (Ended("download") /\ ~logged_in[result.args[1]]) =>
           (reqs = <<>> /\ result.kind = "AssertionError")
TargetOf(act) == FileName(args.outdir, act.activityId, args.filetype)
SidecarOf(act) == FileName(args.outdir, act.activityId, "json")
SidecarNames == {n \in FileNames : n[3] = "json"}
DownloadReqs == {i \in DOMAIN reqs : IsDownload(reqs[i])}

\* C4: a download_all run that repeats a clean one (the last run returned
\* with no error counted, and this run has the same outdir and filetype and
\* got the same activities) issues no download request and writes no file
\* while it runs, and it ends by returning (0, N, 0), N the number of
\* activities.
C4_Idempotent ==
    /\ (pc = "da_loop" /\ run.repeat) =>
           (DownloadReqs = {} /\ run.written = {} /\ counts = <<0, idx, 0>>)
    /\ (Ended("download_all") /\ run.repeat) =>
           /\ result.kind = "return"
           /\ result.value = <<0, Len(activities), 0>>
           /\ DownloadReqs = {}
           /\ run.written = {}

C4_Witness ==
    /\ Ended("download_all") /\ run.repeat /\ args.filetype = "tcx"
    /\ Len(activities) = 2 /\ result.value = <<0, 2, 0>>

\* C8 (continue_on_fail set): every failed download is counted in n_error and
\* the loop goes on: the run ends by returning its counts, with n_error the
\* number of failures, after every activity of the list has been processed
\* (its sidecar is there, and it was skipped or its download was tried).
C8_Continue ==
    /\ (pc = "da_loop" /\ run.errors # <<>>) =>
           (args.continue_on_fail /\ counts[3] = Len(run.errors)
               /\ \A k \in DOMAIN run.errors : run.errors[k][1] <= idx)
    /\ (Ended("download_all") /\ args.continue_on_fail /\ run.errors # <<>>) =>
           /\ result.kind = "return"
           /\ result.value = counts
           /\ counts[3] = Len(run.errors)
           /\ idx = Len(activities)
           /\ \A i \in DOMAIN activities : fs[SidecarOf(activities[i])] # Absent

\* C8 (continue_on_fail not set): the first failed download ends the run with
\* the error the download raised, and no later activity is touched: the
\* failed download is the last request, and every file written and every
\* download requested belongs to an activity up to the failed one.
C8_Stop ==
    (Ended("download_all") /\ ~args.continue_on_fail /\ run.errors # <<>>) =>
        LET failed == idx + 1
            reached == {activities[i].activityId : i \in 1..failed}
        IN  /\ run.errors = <<<<failed, result.kind>>>>
            /\ result.kind \in Caught
            /\ failed <= Len(activities)
            /\ IsDownload(reqs[Len(reqs)])
            /\ reqs[Len(reqs)].params[2] = activities[failed].activityId
            /\ result.kind = DownloadStatus(reqs[Len(reqs)].status)
            /\ \A n \in run.written : n[2] \in reached
            /\ \A i \in DownloadReqs : reqs[i].params[2] \in reached
            /\ Cardinality(DownloadReqs) <= failed

\* C8: in download_all a download failing with GCError or GCFiletypeError is
\* counted and the remaining activities are still processed when
\* continue_on_fail is set, and is re-raised with no later activity processed
\* when it is not.
C8_ContinueOnFail == C8_Continue /\ C8_Stop

C8_Witness ==
    /\ Ended("download_all") /\ ~args.continue_on_fail
    /\ result.kind = "GCFiletypeError" /\ idx = 0 /\ Len(activities) = 2
    /\ activities[1].activityId # activities[2].activityId

C8_WitnessContinue ==
    /\ Ended("download_all") /\ args.continue_on_fail
    /\ result.kind = "return" /\ result.value = <<1, 0, 1>>
    /\ run.errors = <<<<1, "GCError">>>>

\* C9: a step of download_all leaves every sidecar file that exists as it is.
C9_SidecarStep ==
    pc \in {"gaa", "da_loop"} =>
        \A n \in SidecarNames : fs[n] # Absent => fs'[n] = fs[n]

\* C9: the sidecar activity_<id>.json is written once and never overwritten
\* by download_all, whatever the run does with the activity.
C9_SidecarWrittenOnce == [][C9_SidecarStep]_vars

\* a run has met an activity whose sidecar holds another record than the
\* one the server now gives
C9_Witness ==
    /\ pc = "da_loop" /\ idx > 0
    /\ fs[SidecarOf(activities[idx])] # JsonDump(activities[idx])
    /\ fs[SidecarOf(activities[idx])] # Absent
(***************************************************************************)
(* The TCX loader (sportdata/io/tcx.py).                                   *)
(*                                                                         *)
(* An element is a record of its attributes and of its children by tag;    *)
(* an attribute or the children of one tag are a sequence, empty when the  *)
(* element has none.  A document is the sequence, in document order, of    *)
(* its elements named Activity, each with the namespace it is in.  A       *)
(* constructor gives [err, val]: err is the exception it raises ("" when   *)
(* it returns), val the object it builds.                                  *)
(***************************************************************************)
\* most Activity elements in a document
MaxActs == 2
\* most Lap children of an Activity element
MaxLaps == 1

TCX_NAMESPACE == "TrainingCenterDatabase/v2"
OtherNamespace == "other"

Ok(v) == [err |-> "", val |-> v]
Err(e) == [err |-> e, val |-> <<>>]

\* dateutil.parser.parse: the text "bad" is no timestamp
ParseTime(text) ==
    IF text = "bad" THEN Err("ValueError") ELSE Ok(<<"datetime", text>>)

\* a list comprehension [F(e) for e in elems]: the first constructor that
\* raises ends it
RECURSIVE FirstError(_)
FirstError(rs) ==
    IF rs = <<>> THEN ""
    ELSE IF Head(rs).err # "" THEN Head(rs).err
    ELSE FirstError(Tail(rs))

\* a comprehension that keeps the object of the first element only
CollectFirst(rs) ==
    IF FirstError(rs) # "" THEN Err(FirstError(rs))
    ELSE Ok(IF rs = <<>> THEN <<>> ELSE <<rs[1].val>>)

\* lines 50 and 66: [Trackpoint(e) for e in ...], [Lap(e) for e in elm.Lap]
Collect(rs) ==
    IF FirstError(rs) # "" THEN Err(FirstError(rs))
    ELSE Ok([i \in DOMAIN rs |-> rs[i].val])

\* a Position whose missing children go unnoticed
ChildMissingNever(position) == FALSE

\* lines 32-33: elm.Position.LatitudeDegrees and elm.Position.LongitudeDegrees
\* raise AttributeError when Position has no such child
ChildMissing(position) ==
    position.LatitudeDegrees = <<>> \/ position.LongitudeDegrees = <<>>

\* Trackpoint.__init__ (lines 28-37); None is the empty tuple, and the pair
\* is made of the values of the two children
Trackpoint(elm) ==
    IF elm.Time = <<>> THEN Err("AttributeError")
    ELSE IF ParseTime(elm.Time[1]).err # "" THEN ParseTime(elm.Time[1])
    ELSE IF elm.Position # <<>> /\ ChildMissing(elm.Position[1])
    THEN Err("AttributeError")
    ELSE Ok([time |-> ParseTime(elm.Time[1]).val,
             latlng |-> IF elm.Position # <<>>
                        THEN elm.Position[1].LatitudeDegrees
                                 \o elm.Position[1].LongitudeDegrees
                        ELSE <<>>,
             altitude |-> elm.AltitudeMeters,
             distance |-> elm.Distance])

\* Lap.__init__ (lines 41-52)
Lap(elm) ==
    IF elm.StartTime = <<>> THEN Err("KeyError")
    ELSE IF ParseTime(elm.StartTime[1]).err # "" THEN ParseTime(elm.StartTime[1])
    ELSE IF elm.TotalTimeSeconds = <<>> \/ elm.DistanceMeters = <<>>
              \/ elm.Calories = <<>>
    THEN Err("AttributeError")
    ELSE LET tps == IF elm.Track # <<>>
                    THEN Collect([i \in DOMAIN elm.Track[1] |->
                                     Trackpoint(elm.Track[1][i])])
                    ELSE Ok(<<>>)
         IN  IF tps.err # "" THEN tps
             ELSE Ok([start_time |-> ParseTime(elm.StartTime[1]).val,
                      duration |-> elm.TotalTimeSeconds[1],
                      distance |-> elm.DistanceMeters[1],
                      calories |-> elm.Calories[1],
                      max_speed |-> elm.MaximumSpeed,
                      trackpoints |-> tps.val])

\* Activity.__init__ (lines 62-66); elm.Lap raises when there is no Lap child
Activity(elm) ==
    IF elm.Sport = <<>> THEN Err("KeyError")
    ELSE IF elm.Id = <<>> THEN Err("AttributeError")
    ELSE IF ParseTime(elm.Id[1]).err # "" THEN ParseTime(elm.Id[1])
    ELSE IF elm.Lap = <<>> THEN Err("AttributeError")
    ELSE LET laps == Collect([i \in DOMAIN elm.Lap |-> Lap(elm.Lap[i])])
         IN  IF laps.err # "" THEN laps
             ELSE Ok([sport |-> elm.Sport[1],
                      time |-> ParseTime(elm.Id[1]).val,
                      laps |-> laps.val])

\* line 77: base.xpath('//ns:Activity')
RECURSIVE XPathActivity(_)
XPathActivity(d) ==
    IF d = <<>> THEN <<>>
    ELSE IF Head(d).ns = TCX_NAMESPACE
    THEN <<Head(d)>> \o XPathActivity(Tail(d))
    ELSE XPathActivity(Tail(d))

\* load_activities (lines 69-77)
load_activities(d) ==
    LET elms == XPathActivity(d)
    IN  Collect([i \in DOMAIN elms |-> Activity(elms[i])])

\* an assertion that accepts any number of activities but none
ExactlyOneOrMore(n) == n >= 1

\* line 90: assert len(activities) == 1
ExactlyOne(n) == n = 1

\* load_activity (lines 80-91)
load_activity(d) ==
    LET r == load_activities(d)
    IN  IF r.err # "" THEN r
        ELSE IF ~ExactlyOne(Len(r.val)) THEN Err("AssertionError")
        ELSE Ok(r.val[1])

(***************************************************************************)
(* The documents given to the loader.                                      *)
(***************************************************************************)
TrackpointElem(time, position) ==
    [Time |-> time, Position |-> position,
     AltitudeMeters |-> <<>>, DistanceMeters |-> <<>>, Distance |-> <<>>]
PositionElem(lat, lng) == [LatitudeDegrees |-> lat, LongitudeDegrees |-> lng]
LapElem(calories, track) ==
    [StartTime |-> <<"t1">>, TotalTimeSeconds |-> <<60>>,
     DistanceMeters |-> <<100>>, Calories |-> calories,
     MaximumSpeed |-> <<>>, Track |-> track]

\* a Lap with one positioned Trackpoint, and a Lap without its Calories child
LapElems ==
    {LapElem(<<5>>, <<<<TrackpointElem(<<"t2">>, <<PositionElem(<<46>>, <<6>>)>>)>>>>),
     LapElem(<<>>, <<>>)}

ActivityElems ==
    [ns : {TCX_NAMESPACE, OtherNamespace},
     Sport : {<<>>, <<"Running">>},
     Id : {<<"t0">>},
     Lap : SeqsUpTo(LapElems, MaxLaps)]

Docs == SeqsUpTo(ActivityElems, MaxActs)

InitTcx ==
    /\ logged_in = [f \in Fetchers |-> FALSE]
    /\ cookies = [f \in Fetchers |-> FALSE]
    /\ downloader = Unbound
    /\ fs = [n \in FileNames |-> Absent]
    /\ pc = "idle"
    /\ self = "f1"
    /\ reqs = <<>>
    /\ result = NoCall
    /\ caller = "client"
    /\ gself = "f1"
    /\ start = 0
    /\ all_activities = <<>>
    /\ total = -1
    /\ wellformed = TRUE
    /\ args = NoArgs
    /\ activities = <<>>
    /\ idx = 0
    /\ counts = <<0, 0, 0>>
    /\ run = NoHistory
    /\ last = NoRun
    /\ doc \in Docs
    /\ loaded = NotLoaded

LoadActivities ==
    /\ loaded' = [op |-> "load_activities", err |-> load_activities(doc).err,
                  val |-> load_activities(doc).val]
    /\ UNCHANGED <<logged_in, cookies, downloader, fs, pc, self, reqs, result>>
    /\ UNCHANGED gaaVars
    /\ UNCHANGED daVars
    /\ UNCHANGED doc

LoadActivity ==
    /\ loaded' = [op |-> "load_activity", err |-> load_activity(doc).err,
                  val |-> load_activity(doc).val]
    /\ UNCHANGED <<logged_in, cookies, downloader, fs, pc, self, reqs, result>>
    /\ UNCHANGED gaaVars
    /\ UNCHANGED daVars
    /\ UNCHANGED doc

NextTcx ==
    \/ LoadActivities
    \/ LoadActivity

SpecTcx == InitTcx /\ [][NextTcx]_vars

Maps(elm) == Activity(elm).err = ""

\* C10: on a document whose namespace-qualified Activity elements all map to
\* activities, load_activity returns the activity of the only such element
\* when there is exactly one, and fails with AssertionError when there is
\* none or more than one; an error raised while mapping an element leaves
\* load_activity as it leaves load_activities; and whenever load_activity
\* returns, load_activities returns a list whose single element it is.
C10_LoadActivity ==
    loaded.op = "load_activity" =>
        LET elms == SelectSeq(doc, LAMBDA e : e.ns = TCX_NAMESPACE)
            all == load_activities(doc)
        IN  /\ (\A i \in DOMAIN elms : Maps(elms[i])) =>
                   /\ all.err = "" /\ Len(all.val) = Len(elms)
                   /\ Len(elms) = 1 =>
                          (loaded.err = "" /\ loaded.val = Activity(elms[1]).val)
                   /\ Len(elms) # 1 => loaded.err = "AssertionError"
            /\ (\E i \in DOMAIN elms : ~Maps(elms[i])) =>
                   (all.err # "" /\ loaded.err = all.err)
            /\ loaded.err = "" => (all.err = "" /\ all.val = <<loaded.val>>)

\* two qualified Activity elements, both mapping: the assertion fails
C10_Witness ==
    /\ loaded.op = "load_activity" /\ loaded.err = "AssertionError"
    /\ Len(doc) = 2 /\ \A i \in 1..2 : doc[i].ns = TCX_NAMESPACE /\ Maps(doc[i])

\* one qualified Activity element beside one of another namespace: returned
C10_WitnessOne ==
    /\ loaded.op = "load_activity" /\ loaded.err = ""
    /\ Len(doc) = 2 /\ doc[1].ns = OtherNamespace /\ doc[2].ns = TCX_NAMESPACE
    /\ Len(loaded.val.laps) = 1

(***************************************************************************)
(* The mapping of one Activity element: documents holding a single         *)
(* qualified Activity element, with laps and trackpoints of every kind.    *)
(***************************************************************************)
\* most Trackpoint children of a Track element
MaxPoints == 2
\* most Lap children of the Activity element of these documents
MaxParseLaps == 2

\* Trackpoints that map: one without Position, one with a full Position
GoodPoints ==
    {TrackpointElem(<<"t2">>, <<>>),
     TrackpointElem(<<"t3">>, <<PositionElem(<<46>>, <<6>>)>>)}

\* Trackpoints whose Position has only one of its two children
PartialPoints ==
    {TrackpointElem(<<"t4">>, <<PositionElem(<<46>>, <<>>)>>),
     TrackpointElem(<<"t4">>, <<PositionElem(<<>>, <<6>>)>>)}

\* the children of a Track: Trackpoints that map, and at most one that does
\* not, at the end
ParseTracks ==
    SeqsUpTo(GoodPoints, MaxPoints)
        \cup {Append(s, p) : s \in SeqsUpTo(GoodPoints, MaxPoints - 1),
                             p \in PartialPoints}

\* Laps with a Track, a Lap without Track, a Lap without its Calories, and a
\* Lap with two Tracks
ParseLaps ==
    {LapElem(<<5>>, <<t>>) : t \in ParseTracks}
        \cup {LapElem(<<5>>, <<>>), LapElem(<<>>, <<>>),
              LapElem(<<5>>, <<<<TrackpointElem(<<"t2">>, <<>>)>>,
                               <<TrackpointElem(<<"t3">>, <<>>)>>>>)}

ActivityElem(laps) ==
    [ns |-> TCX_NAMESPACE, Sport |-> <<"Running">>, Id |-> <<"t0">>,
     Lap |-> laps]

\* the document of the test: two laps holding 4 and 3 trackpoints, the
\* second trackpoint of the first lap with a position
Activity1 ==
    ActivityElem(
        <<LapElem(<<5>>, <<<<TrackpointElem(<<"t1">>, <<>>),
                            TrackpointElem(<<"t2">>, <<PositionElem(<<46>>, <<6>>)>>),
                            TrackpointElem(<<"t3">>, <<>>),
                            TrackpointElem(<<"t4">>, <<>>)>>>>),
          LapElem(<<5>>, <<<<TrackpointElem(<<"t5">>, <<>>),
                            TrackpointElem(<<"t6">>, <<>>),
                            TrackpointElem(<<"t7">>, <<>>)>>>>)>>)

ParseDocs ==
    {<<ActivityElem(laps)>> : laps \in SeqsUpTo(ParseLaps, MaxParseLaps)}
        \cup {<<Activity1>>}

InitParse ==
    /\ logged_in = [f \in Fetchers |-> FALSE]
    /\ cookies = [f \in Fetchers |-> FALSE]
    /\ downloader = Unbound
    /\ fs = [n \in FileNames |-> Absent]
    /\ pc = "idle"
    /\ self = "f1"
    /\ reqs = <<>>
    /\ result = NoCall
    /\ caller = "client"
    /\ gself = "f1"
    /\ start = 0
    /\ all_activities = <<>>
    /\ total = -1
    /\ wellformed = TRUE
    /\ args = NoArgs
    /\ activities = <<>>
    /\ idx = 0
    /\ counts = <<0, 0, 0>>
    /\ run = NoHistory
    /\ last = NoRun
    /\ doc \in ParseDocs
    /\ loaded = NotLoaded

SpecParse == InitParse /\ [][NextTcx]_vars

\* the qualified Activity elements of the document, and the activities the
\* last call of the loader returned, in the same order
Qualified == SelectSeq(doc, LAMBDA e : e.ns = TCX_NAMESPACE)
Parsed ==
    IF loaded.err # "" THEN <<>>
    ELSE IF loaded.op = "load_activities" THEN loaded.val
    ELSE IF loaded.op = "load_activity" THEN <<loaded.val>>
    ELSE <<>>

\* the Trackpoint children of the first Track of a Lap element
PointsOf(lap) == IF lap.Track = <<>> THEN <<>> ELSE lap.Track[1]

IsPartial(point) ==
    /\ point.Position # <<>>
    /\ (point.Position[1].LatitudeDegrees = <<>>)
           # (point.Position[1].LongitudeDegrees = <<>>)

\* C11: in whatever the loader returns, the latlng of every Trackpoint is
\* either None or the pair of the latitude and the longitude of its
\* Position; it is None exactly when the Trackpoint element has no Position;
\* and the loader fails on a document with a Trackpoint whose Position has
\* only one of the two children.
C11_LatLng ==
    /\ \A k \in DOMAIN Parsed : \A i \in DOMAIN Parsed[k].laps :
       \A j \in DOMAIN Parsed[k].laps[i].trackpoints :
          LET tp == Parsed[k].laps[i].trackpoints[j]
              e == PointsOf(Qualified[k].Lap[i])[j]
          IN  /\ Len(tp.latlng) \in {0, 2}
              /\ (tp.latlng = <<>>) <=> (e.Position = <<>>)
              /\ e.Position # <<>> =>
                     /\ e.Position[1].LatitudeDegrees # <<>>
                     /\ e.Position[1].LongitudeDegrees # <<>>
                     /\ tp.latlng = <<e.Position[1].LatitudeDegrees[1],
                                      e.Position[1].LongitudeDegrees[1]>>
    /\ (/\ loaded.op # "none"
        /\ \E k \in DOMAIN Qualified : \E i \in DOMAIN Qualified[k].Lap :
           \E j \in DOMAIN PointsOf(Qualified[k].Lap[i]) :
              IsPartial(PointsOf(Qualified[k].Lap[i])[j]))
           => loaded.err # ""

\* a returned activity with a Trackpoint without position and one with a pair
C11_Witness ==
    /\ loaded.op = "load_activity" /\ loaded.err = ""
    /\ \E i \in DOMAIN loaded.val.laps :
          /\ Len(loaded.val.laps[i].trackpoints) = 2
          /\ loaded.val.laps[i].trackpoints[1].latlng = <<>>
          /\ loaded.val.laps[i].trackpoints[2].latlng = <<46, 6>>

\* a Position with its latitude only: the loader raised AttributeError
C11_WitnessPartial ==
    /\ loaded.op = "load_activity" /\ loaded.err = "AttributeError"
    /\ Len(doc) = 1 /\ Len(doc[1].Lap) = 1
    /\ PointsOf(doc[1].Lap[1]) # <<>>
    /\ IsPartial(PointsOf(doc[1].Lap[1])[1])

\* C12: every activity the loader returns has one Lap record per Lap child
\* of its element, the i-th record made from the i-th child, and every Lap
\* record has one Trackpoint record per child of the (first) Track of its
\* Lap element, the j-th record made from the j-th child, and no Trackpoint
\* record when the Lap element has no Track.
C12_LapsAndTrackpoints ==
    \A k \in DOMAIN Parsed :
       /\ Len(Parsed[k].laps) = Len(Qualified[k].Lap)
       /\ \A i \in DOMAIN Parsed[k].laps :
             LET lap == Parsed[k].laps[i]
                 e == Qualified[k].Lap[i]
             IN  /\ lap.start_time = <<"datetime", e.StartTime[1]>>
                 /\ lap.calories = e.Calories[1]
                 /\ e.Track = <<>> => lap.trackpoints = <<>>
                 /\ Len(lap.trackpoints) = Len(PointsOf(e))
                 /\ \A j \in DOMAIN lap.trackpoints :
                       /\ lap.trackpoints[j].time
                              = <<"datetime", PointsOf(e)[j].Time[1]>>
                       /\ lap.trackpoints[j] = Trackpoint(PointsOf(e)[j]).val

\* the document of the test is loaded: 2 laps, with 4 and 3 trackpoints
C12_Witness ==
    /\ loaded.op = "load_activity" /\ loaded.err = ""
    /\ doc = <<Activity1>>
    /\ Len(loaded.val.laps) = 2
    /\ Len(loaded.val.laps[1].trackpoints) = 4
    /\ Len(loaded.val.laps[2].trackpoints) = 3
    /\ loaded.val.laps[1].trackpoints[2].latlng = <<46, 6>>

\* a Lap without Track beside a Lap with two Trackpoints
C12_WitnessNoTrack ==
    /\ loaded.op = "load_activities" /\ loaded.err = ""
    /\ Len(loaded.val) = 1 /\ Len(loaded.val[1].laps) = 2
    /\ doc[1].Lap[1].Track = <<>>
    /\ Len(loaded.val[1].laps[2].trackpoints) = 2
    /\ loaded.val[1].laps[2].trackpoints[1] # loaded.val[1].laps[2].trackpoints[2]

(***************************************************************************)
(* The paging of get_all_activities, read from the log of its requests.    *)
(***************************************************************************)
PageOf(r) == r.info.results.activities
TotalOf(r) == r.info.results.search.totalFound

\* the pages of the first k requests of the log, concatenated in the order
\* of the requests
RECURSIVE PagesUpTo(_)
PagesUpTo(k) == IF k = 0 THEN <<>> ELSE PagesUpTo(k - 1) \o PageOf(reqs[k])

C13_WitnessZero ==
    /\ Ended("get_all_activities") /\ result.kind = "return"
    /\ Len(reqs) = 1 /\ TotalOf(reqs[1]) = 0

\* a page that brings nothing although the total it reports is beyond the
\* offset it was requested at
EmptyBelowTotal(r) ==
    /\ r.status = 200
    /\ PageOf(r) = <<>>
    /\ TotalOf(r) > r.params[1]

\* C14: get_all_activities has no progress guard: a page that is empty while
\* its total is beyond the offset never ends the call; the call is still in
\* its loop at the same offset, it has another request to issue, and the
\* request it issued next, if any, is the same request again.
C14_NoProgressGuard ==
    (result.op = "get_all_activities") =>
        \A i \in DOMAIN reqs :
            EmptyBelowTotal(reqs[i]) =>
                /\ i = Len(reqs) =>
                       /\ pc = "gaa"
                       /\ start = reqs[i].params[1]
                       /\ Len(reqs) < MaxReq => ENABLED GaaStep
                /\ i < Len(reqs) =>
                       /\ reqs[i + 1].params = reqs[i].params
                       /\ reqs[i + 1].url = reqs[i].url
                       /\ reqs[i + 1].fetcher = reqs[i].fetcher

\* every page so far was empty below its total: the call is still running,
\* having issued the same request as often as the model follows it
C14_Witness ==
    /\ result.op = "get_all_activities" /\ pc = "gaa"
    /\ Len(reqs) = MaxReq
    /\ \A i \in DOMAIN reqs : EmptyBelowTotal(reqs[i]) /\ reqs[i] = reqs[1]

\* C15 (the claim as stated): a download_all call lists the activities
\* through the fetcher it was called on, and on a logged-in fetcher it does
\* not depend on the module global being bound.
C15_ListsThroughSelf ==
    (result.op = "download_all") =>
        /\ (pc \in {"gaa", "da_loop"}) => gself = self
        /\ (pc = "done" /\ logged_in[self]) => result.kind # "NameError"

\* the counts a download_all run returned agree with what happened to each
\* activity of the list: each one had its target there when the loop came to
\* it, or had download called for it, never both; n_skipped is the number of
\* the former, n_error the number of downloads that raised, n_downloaded the
\* number of downloads that returned
CountsAgree ==
    LET n == Len(activities)
    IN  /\ result.value[1] + result.value[2] + result.value[3] = n
        /\ run.existed \cup run.tried = 1..n
        /\ run.existed \cap run.tried = {}
        /\ result.value[2] = Cardinality(run.existed)
        /\ result.value[3] = Len(run.errors)
        /\ result.value[1] = Cardinality(run.tried) - Len(run.errors)
        /\ result.value[1] =
               Cardinality({i \in DownloadReqs : reqs[i].status = 200})

\* C16 (the claim as stated): whenever download_all returns, its counts add up
\* to the number of activities listed, each activity counted once; n_skipped
\* counts the activities whose target file was there when the loop came to
\* them, n_downloaded those whose download returned.
C16_Counts ==
    (Ended("download_all") /\ result.kind = "return") => CountsAgree

\* the same for every filetype whose target is not the sidecar
C16_CountsOtherFiletypes ==
    (Ended("download_all") /\ result.kind = "return" /\ args.filetype # "json")
        => CountsAgree

\* a run that downloaded, skipped and failed
C16_WitnessOtherFiletypes ==
    /\ Ended("download_all") /\ result.kind = "return" /\ args.filetype = "tcx"
    /\ Len(activities) = 2 /\ result.value[1] + result.value[2] = 1
    /\ result.value[3] = 1

(***************************************************************************)
(* The script's calls together with the client's own calls of download,    *)
(* to a file that download_all does not name.                              *)
(***************************************************************************)
RetryName == FileName("out", "a2", "fit")

NextRetry ==
    \/ \E f \in ScriptFetchers : BindDownloader(f)
    \/ \E f \in ScriptFetchers : Login1(f)
    \/ Login2
    \/ Login3
    \/ \E f \in ScriptFetchers, cof \in BOOLEAN :
          DownloadAllCall(f, "out", "tcx", cof)
    \/ GaaStep
    \/ DaStep
    \/ DaReturn
    \/ Discard
    \/ \E f \in ScriptFetchers : Download(f, "a1", RetryName, "fit")

SpecRetry == Init /\ [][NextRetry]_vars

\* C17 (the claim as stated, its consequence for the run): when a
\* download_all run has ended, every activity whose download failed in it has
\* no target file.
C17_FailedHasNoTarget ==
    Ended("download_all") =>
        \A k \in DOMAIN run.errors :
            fs[TargetOf(activities[run.errors[k][1]])] = Absent

\* a step in which a download request is answered by a status that is not 200
\* writes no file, but for the sidecar download_all may have written before
\* it called download
C17_FailedStep ==
    (/\ Len(reqs') = Len(reqs) + 1
     /\ IsDownload(reqs'[Len(reqs')])
     /\ reqs'[Len(reqs')].status # 200)
        => /\ \A n \in FileNames \ SidecarNames : fs'[n] = fs[n]
           /\ result'.op = "download" => fs' = fs

\* in a download_all run, an activity whose download failed, no later
\* download of it returning, has no target file; and the activities the last
\* run left so are not skipped by a run with the same outdir and filetype:
\* download is called for the first of each that the loop comes to
C17_Retried ==
    (result.op = "download_all" /\ pc \in {"da_loop", "done"}) =>
        /\ \A id \in Unfetched(activities, run) :
              fs[FileName(args.outdir, id, args.filetype)] = Absent
        /\ \A i \in run.tried \cup run.existed :
              (/\ activities[i].activityId \in run.retry
               /\ \A j \in 1..(i - 1) :
                     activities[j].activityId # activities[i].activityId)
                 => (i \in run.tried /\ i \notin run.existed)

\* C17: a download that fails on its status never creates, truncates or
\* writes the destination file; so an activity whose download failed in a
\* download_all run, unless a later download of it returned in that run, has
\* no target file and is attempted again, not skipped, by the next run with
\* the same outdir and filetype.
C17_FailedDownloadRetried == []C17_Retried /\ [][C17_FailedStep]_vars

\* the second run calls download for the activity the first run failed on
C17_Witness ==
    /\ result.op = "download_all" /\ pc \in {"da_loop", "done"}
    /\ run.retry = {"a1"}
    /\ activities # <<>> /\ activities[1].activityId = "a1"
    /\ 1 \in run.tried

\* a failed download to a file that is there leaves it as it was
C17_WitnessKept ==
    /\ Ended("download") /\ result.kind \in {"GCError", "GCFiletypeError"}
    /\ fs[result.args[3]] # Absent

\* no step turns a logged-in flag from true to false, and the only step that
\* turns one from false to true is the one that ends a login of that fetcher
\* by its return, after three requests answered 200
C18_FlagStep ==
    \A f \in Fetchers :
        /\ logged_in[f] => logged_in'[f]
        /\ (~logged_in[f] /\ logged_in'[f]) =>
               (result'.op = "login" /\ result'.args = <<f>>
                   /\ result'.kind = "return" /\ pc' = "done"
                   /\ result.kind = "running"
                   /\ Len(reqs') = 3
                   /\ \A i \in 1..3 : reqs'[i].fetcher = f /\ reqs'[i].status = 200)

\* a search (or get_activities) with a limit within the maximum on a fetcher
\* whose flag is set passes its assertions and issues its request
C18_SearchPermitted ==
    (pc = "done" /\ result.op \in {"search", "get_activities"}
        /\ logged_in[result.args[1]] /\ result.args[3] <= GC_ACTIVITIES_LIMIT)
        => (result.kind # "AssertionError" /\ Len(reqs) = 1)

\* C18: the logged-in flag of every fetcher is false at construction, no
\* operation resets it, only the return of a login sets it; so a login that
\* fails after an earlier one succeeded leaves it true, and search is still
\* permitted.
C18_Monotonic ==
    /\ \A f \in Fetchers : ~logged_in[f]
    /\ [][C18_FlagStep]_vars
    /\ [](C18_SearchPermitted
          /\ \A f \in Fetchers : logged_in[f] => cookies[f])

\* a login has failed on a fetcher that was logged in: the flag is still true
C18_Witness ==
    /\ Ended("login") /\ result.kind = "GCError"
    /\ Len(reqs) = 3
    /\ logged_in[result.args[1]]

============================================================================
